---------------------------- MODULE Spec2Model ----------------------------
(***************************************************************************)
(* Model of the word-extraction pipeline (word_extraction_pipeline.py and  *)
(* utils/): the batch driver main, process_zip_file with its cascade of    *)
(* OCR attempts, process_single_roi, run_tesseract_ocr and validate_text.  *)
(*                                                                         *)
(* Strings are sequences of one-character strings, so that tokenizing,     *)
(* stripping and joining are computed character by character as the code   *)
(* does.  Python's None for a box is the empty tuple NoBox; None for       *)
(* ocr_method is the string "None".  Image pixels are abstracted: an image *)
(* is the name of the transform that produced it.                          *)
(***************************************************************************)
EXTENDS Integers, Sequences, FiniteSets, TLC

VARIABLES
    batch,          \* the annotated folder: the directory listing main walks
    zi,             \* main: number of entries of the listing already taken
    ri,             \* process_zip_file: number of extracted files already taken
    pc,             \* position of the single worker
    results,        \* main's results list (one dict per emitted record)
    csv,            \* rows written to output.csv (<<>> until written)
    roi_type,       \* locals of process_zip_file for the ROI in hand
    bbox,
    modified_roi,
    ocr_text,
    ocr_box_rel,
    ocr_method,
    validated_text,
    global_ocr_box,
    side_by_side,   \* the debug image built for the ROI in hand
    attempts,       \* log: one entry per run_tesseract_ocr call for the ROI in hand
    computed,       \* log: candidate images computed for the ROI in hand
    errored,        \* log: <<zi, ri>> of every ROI whose processing raised
    engine_rows,    \* run_tesseract_ocr called on its own: the rows the engine returns
    ocr_out         \* run_tesseract_ocr called on its own: what it returned

vars == <<batch, zi, ri, pc, results, csv, roi_type, bbox, modified_roi,
          ocr_text, ocr_box_rel, ocr_method, validated_text, global_ocr_box,
          side_by_side, attempts, computed, errored, engine_rows, ocr_out>>

-----------------------------------------------------------------------------
(* Bounds of the model *)

\* total number of directory entries (archives plus the files inside them)
MaxEntries == 3

\* number of rows the engine returns when run_tesseract_ocr is called on its own
MaxRows == 2

-----------------------------------------------------------------------------
(* Generic helpers *)

Min2(a, b) == IF a < b THEN a ELSE b
Max2(a, b) == IF a > b THEN a ELSE b
SetMin(S) == CHOOSE x \in S : \A y \in S : x <= y
SetMax(S) == CHOOSE x \in S : \A y \in S : x >= y

NoBox == <<>>

-----------------------------------------------------------------------------
(* Characters and Python string methods *)

Letters == {"a", "c", "d", "g", "o", "q", "t", "x"}
Digits  == {"1", "2", "3"}
IsWordChar(c) == c \in Letters \cup Digits \cup {"_"}      \* regex \w
IsSpace(c) == c = " "

\* str.strip(chars): drop leading and trailing characters that are in chars
RECURSIVE LStrip(_, _)
LStrip(s, chars) ==
    IF s # <<>> /\ Head(s) \in chars THEN LStrip(Tail(s), chars) ELSE s
RECURSIVE RStrip(_, _)
RStrip(s, chars) ==
    IF s # <<>> /\ s[Len(s)] \in chars
    THEN RStrip(SubSeq(s, 1, Len(s) - 1), chars) ELSE s
StripChars(s, chars) == RStrip(LStrip(s, chars), chars)
\* str.strip(): whitespace
Strip(s) == StripChars(s, {" "})

\* " ".join(list)
RECURSIVE Join(_)
Join(ts) ==
    IF ts = <<>> THEN <<>>
    ELSE IF Len(ts) = 1 THEN ts[1]
    ELSE ts[1] \o <<" ">> \o Join(Tail(ts))

\* str.isdigit()
IsDigit(s) == s # <<>> /\ \A i \in 1..Len(s) : s[i] \in Digits

-----------------------------------------------------------------------------
(* utils/text.py *)

\* the lexicon behind english_dict.check: a fixed predicate on words
Lexicon == { <<"c","a","t">>, <<"d","o","g">> }
DictCheck(word) == word \in Lexicon

\* the exceptions process_zip_file passes: {"&", "-", "'"}
PipelineExceptions == { <<"&">>, <<"-">>, <<"'">> }

\* regex \b before index i (1..Len+1): exactly one side is a \w character
IsWordAt(t, j) == j \in 1..Len(t) /\ IsWordChar(t[j])
Boundary(t, i) == IsWordAt(t, i - 1) # IsWordAt(t, i)

\* [\w'-]
InTokenClass(c) == IsWordChar(c) \/ c = "'" \/ c = "-"

\* ends e of a match of \b[\w'-]+\b that starts at s
MatchEnds(t, s) ==
    { e \in s..Len(t) :
        /\ \A j \in s..e : InTokenClass(t[j])
        /\ Boundary(t, e + 1) }

\* re.findall(r"\b[\w'-]+\b", text) scanning from index p: leftmost match,
\* greedy (longest), then continue after it
RECURSIVE FindAllFrom(_, _)
FindAllFrom(t, p) ==
    IF p > Len(t) THEN <<>>
    ELSE IF Boundary(t, p) /\ MatchEnds(t, p) # {}
         THEN LET e == SetMax(MatchEnds(t, p))
              IN  <<SubSeq(t, p, e)>> \o FindAllFrom(t, e + 1)
         ELSE FindAllFrom(t, p + 1)
FindAll(t) == FindAllFrom(t, 1)

\* the body of validate_text's loop: is the token appended to valid_tokens
TokenKept(token, exceptions) ==
    /\ ~IsDigit(token)
    /\ LET cleaned_token == StripChars(token, {"'", "-"})
       IN  cleaned_token \in exceptions \/ DictCheck(cleaned_token)

RECURSIVE KeepTokens(_, _)
KeepTokens(tokens, exceptions) ==
    IF tokens = <<>> THEN <<>>
    ELSE IF TokenKept(Head(tokens), exceptions)
         THEN <<Head(tokens)>> \o KeepTokens(Tail(tokens), exceptions)
         ELSE KeepTokens(Tail(tokens), exceptions)

\* a validator that filters nothing
validate_text_unfiltered(text, exceptions) == text

validate_text(text, exceptions) == Join(KeepTokens(FindAll(text), exceptions))

-----------------------------------------------------------------------------
(* utils/filesystem.py *)

SanitizeLen == 32

FilenameChar(c) == IF c \in Letters \cup Digits \cup {"_", "-"} THEN c ELSE "_"

sanitize_filename(text) ==
    LET n == Min2(Len(text), SanitizeLen)
    IN  [i \in 1..n |-> FilenameChar(text[i])]

-----------------------------------------------------------------------------
(* utils/tesseract.py *)

\* a row of pytesseract's image_to_data:
\*   [text, conf_ok, conf, left, top, width, height]
\* conf_ok is whether float(data['conf'][i]) succeeds

pad == 5

RowConf(row) == IF row.conf_ok THEN row.conf ELSE -1

\* a filter that lets a confidence of 0 through
RowKeptFromZero(row) == Strip(row.text) # <<>> /\ RowConf(row) >= 0

RowKept(row) == Strip(row.text) # <<>> /\ RowConf(row) > 0

RECURSIVE KeptRows(_)
KeptRows(data) ==
    IF data = <<>> THEN <<>>
    ELSE IF RowKept(Head(data))
         THEN <<Head(data)>> \o KeptRows(Tail(data))
         ELSE KeptRows(Tail(data))

run_tesseract_ocr(data) ==
    LET kept  == KeptRows(data)
        n     == Len(kept)
        texts == [i \in 1..n |-> Strip(kept[i].text)]
        all_left   == SetMin({kept[i].left : i \in 1..n})
        all_top    == SetMin({kept[i].top : i \in 1..n})
        all_right  == SetMax({kept[i].left + kept[i].width : i \in 1..n})
        all_bottom == SetMax({kept[i].top + kept[i].height : i \in 1..n})
    IN  IF n = 0
        THEN [text |-> <<>>, box |-> NoBox]
        ELSE [text |-> Join(texts),
              box  |-> << Max2(0, all_left - pad), Max2(0, all_top - pad),
                          all_right + pad, all_bottom + pad >>]

-----------------------------------------------------------------------------
(* Inputs: ROI files, page images, archives, OCR engine behaviours *)

\* an extracted file: [ext_roi, readable, roitype, rect, has_coords, coords]
\*   ext_roi     the name ends with ".roi"
\*   readable    ImagejRoi.fromfile succeeds
\*   rect        <<left, top, right, bottom>> of a RECT
\*   has_coords  roi.coordinates() is not None
\*   coords      vertices <<2x, 2y>>: coordinates are kept doubled so that
\*               half-pixel vertices and int() have something to truncate
RoiFile(e, ok, ty, rc, hc, cs) ==
    [ext_roi |-> e, readable |-> ok, roitype |-> ty, rect |-> rc,
     has_coords |-> hc, coords |-> cs]

RectInside   == RoiFile(TRUE, TRUE, "RECT", <<100, 50, 180, 90>>, FALSE, <<>>)
RectAtEdge   == RoiFile(TRUE, TRUE, "RECT", <<-2, 3, 40, 398>>, FALSE, <<>>)
RectOutside  == RoiFile(TRUE, TRUE, "RECT", <<600, 50, 700, 90>>, FALSE, <<>>)
FreeTriangle == RoiFile(TRUE, TRUE, "FREEHAND", <<>>, TRUE,
                        << <<21, 40>>, <<120, 41>>, <<60, 89>> >>)
FreeTwo      == RoiFile(TRUE, TRUE, "FREEHAND", <<>>, TRUE,
                        << <<21, 40>>, <<120, 41>> >>)
FreeOne      == RoiFile(TRUE, TRUE, "FREEHAND", <<>>, TRUE, << <<21, 40>> >>)
FreeNoCoords == RoiFile(TRUE, TRUE, "FREEHAND", <<>>, FALSE, <<>>)
OvalRoi      == RoiFile(TRUE, TRUE, "OVAL", <<>>, FALSE, <<>>)
CorruptRoi   == RoiFile(TRUE, FALSE, "RECT", <<>>, FALSE, <<>>)
NotRoiFile   == RoiFile(FALSE, FALSE, "RECT", <<>>, FALSE, <<>>)

RoiFiles == { RectInside, RectAtEdge, RectOutside, FreeTriangle, FreeTwo,
              FreeOne, FreeNoCoords, OvalRoi, CorruptRoi, NotRoiFile }

PageImage == [width |-> 500, height |-> 400]

\* an entry of the annotated folder: [is_zip, status, image, files]
\*   status  "ok" | "noimage" (no matching .png) | "badimage" (Image.open
\*           raises) | "badzip" (extractall raises)
Archive(z, st, fs) == [is_zip |-> z, status |-> st, image |-> PageImage, files |-> fs]

RECURSIVE FileSeqs(_)
FileSeqs(n) ==
    IF n = 0 THEN { <<>> }
    ELSE { <<f>> \o s : f \in RoiFiles, s \in FileSeqs(n - 1) }

\* the entries that take exactly c of the MaxEntries budget
ArchivesOfCost(c) ==
    IF c = 1
    THEN { Archive(FALSE, "ok", <<>>), Archive(TRUE, "noimage", <<>>),
           Archive(TRUE, "badimage", <<>>), Archive(TRUE, "badzip", <<>>),
           Archive(TRUE, "ok", <<>>) }
    ELSE { Archive(TRUE, "ok", fs) : fs \in FileSeqs(c - 1) }

RECURSIVE Batches(_)
Batches(budget) ==
    { <<>> } \cup
    UNION { { <<a>> \o rest : a \in ArchivesOfCost(c), rest \in Batches(budget - c) }
            : c \in 1..budget }

\* what pytesseract.image_to_data does on one candidate image: it raises, or
\* it returns rows
Row(t, cok, cf, l, tp, w, h) ==
    [text |-> t, conf_ok |-> cok, conf |-> cf, left |-> l, top |-> tp,
     width |-> w, height |-> h]

PageRow == Row(<<>>, TRUE, -1, 0, 0, 80, 40)
CatRow  == Row(<<"c","a","t">>, TRUE, 90, 10, 10, 30, 15)
NumRow  == Row(<<"1","2","3">>, TRUE, 80, 50, 12, 20, 15)
XqRow   == Row(<<" ","x","q">>, TRUE, 60, 2, 3, 20, 10)
DimRow  == Row(<<"d","o","g">>, FALSE, 0, 5, 5, 20, 10)

EngineBehaviours ==
    { [raises |-> TRUE,  data |-> <<>>],
      [raises |-> FALSE, data |-> <<PageRow>>],
      [raises |-> FALSE, data |-> <<PageRow, CatRow>>],
      [raises |-> FALSE, data |-> <<PageRow, CatRow, NumRow>>],
      [raises |-> FALSE, data |-> <<PageRow, DimRow, XqRow>>] }

-----------------------------------------------------------------------------
(* process_single_roi *)

RoiPad == 5

\* int() of a doubled coordinate: truncation toward zero
IntOfDoubled(v2) == IF v2 >= 0 THEN v2 \div 2 ELSE -((-v2) \div 2)

RectBBox(rect, image) ==
    << Max2(0, rect[1] - RoiPad), Max2(0, rect[2] - RoiPad),
       Min2(image.width, rect[3] + RoiPad), Min2(image.height, rect[4] + RoiPad) >>

\* polygon.bounds, doubled: <<min_x, min_y, max_x, max_y>>
PolygonBounds(coords) ==
    LET xs == {coords[i][1] : i \in 1..Len(coords)}
        ys == {coords[i][2] : i \in 1..Len(coords)}
    IN  <<SetMin(xs), SetMin(ys), SetMax(xs), SetMax(ys)>>

FreehandBBox(coords, image) ==
    LET b == PolygonBounds(coords)
    IN  << Max2(0, IntOfDoubled(b[1]) - RoiPad), Max2(0, IntOfDoubled(b[2]) - RoiPad),
           Min2(image.width, IntOfDoubled(b[3]) + RoiPad),
           Min2(image.height, IntOfDoubled(b[4]) + RoiPad) >>

\* an off-by-one in the vertex count
InsufficientCoordsOffByOne(has_coords, coords) == ~has_coords \/ Len(coords) < 1

\* line 59: coords is None or len(coords) < 2
InsufficientCoords(has_coords, coords) == ~has_coords \/ Len(coords) < 2

\* shapely's Polygon(coords) raises ValueError for fewer than 3 vertices
PolygonRaises(coords) == Len(coords) < 3

\* a box PIL cannot crop to a non-empty image
Inverted(b) == b[3] <= b[1] \/ b[4] <= b[2]

\* the value process_single_roi returns when it returns:
\* [roi_type, bbox, roi_img], roi_img "None" or the name of the crop
process_single_roi(roi, image) ==
    IF roi.roitype = "RECT"
    THEN [roi_type |-> "Rectangular", bbox |-> RectBBox(roi.rect, image),
          roi_img |-> "crop"]
    ELSE IF roi.roitype = "FREEHAND"
    THEN IF InsufficientCoords(roi.has_coords, roi.coords)
         THEN [roi_type |-> "Freehand", bbox |-> NoBox, roi_img |-> "None"]
         ELSE [roi_type |-> "Freehand", bbox |-> FreehandBBox(roi.coords, image),
               roi_img |-> "masked"]
    ELSE [roi_type |-> roi.roitype, bbox |-> NoBox, roi_img |-> "None"]

\* process_single_roi raises instead of returning: Polygon() on too few
\* vertices.  (image.crop on an inverted box is build dependent, see TakeRoi.)
SingleRoiRaises(roi) ==
    /\ roi.roitype = "FREEHAND"
    /\ ~InsufficientCoords(roi.has_coords, roi.coords)
    /\ PolygonRaises(roi.coords)

-----------------------------------------------------------------------------
(* process_zip_file and main *)

\* a gate that forgets the text
GateBoxOnly(vtext, box) == box # NoBox

\* lines 150, 161, 172: validated_text.strip() and box is not None
Gate(vtext, box) == Strip(vtext) # <<>> /\ box # NoBox

\* the else branches replaced by straight-line code: every stage runs
AfterStageFallThrough(stage, accepted) ==
    IF stage = "otsu" THEN "eroded"
    ELSE IF stage = "eroded" THEN "fallback"
    ELSE "assemble"

\* the erosion step's else branch goes straight to the end
AfterStageNoFallback(stage, accepted) ==
    IF accepted THEN "assemble"
    ELSE IF stage = "otsu" THEN "eroded"
    ELSE "assemble"

\* the nesting of the if/else of lines 150-179: where control goes after a
\* stage, given whether its gate passed
AfterStage(stage, accepted) ==
    IF accepted THEN "assemble"
    ELSE IF stage = "otsu" THEN "eroded"
    ELSE IF stage = "eroded" THEN "fallback"
    ELSE "assemble"

\* the try wrapped around the for loop instead of its body
AfterRoiExceptionAbortsArchive == "main_loop"

\* lines 219-221: the except clause sits inside the for loop over the files
AfterRoiException == "roi_loop"

\* lines 164, 175: ocr_box_rel = eroded_box / fallback_box on acceptance
AcceptedBoxStale(prev_box, stage_box) == prev_box
AcceptedBox(prev_box, stage_box) == stage_box

\* lines 182-188
GlobalBox(region, box_rel) ==
    IF box_rel # NoBox
    THEN << region[1] + box_rel[1], region[2] + box_rel[2],
            region[1] + box_rel[3], region[2] + box_rel[4] >>
    ELSE NoBox

\* the two images pasted the other way round
SideBySideSwapped(processed, box_rel) ==
    << [img |-> processed, drawn |-> box_rel],
       [img |-> "original", drawn |-> NoBox] >>

\* lines 190-200: the box is drawn on modified_roi, then original_roi is
\* pasted at x = 0 and modified_roi to its right.  A sub-image is the name of
\* the candidate and the box drawn on it.
SideBySide(processed, box_rel) ==
    << [img |-> "original", drawn |-> NoBox],
       [img |-> processed, drawn |-> box_rel] >>

NoneWord == <<"[", "n", "o", "n", "e", "]">>

\* line 203
WordForFilename(text) == IF Strip(text) # <<>> THEN sanitize_filename(text) ELSE NoneWord

CurArchive == batch[zi]
CurFile == batch[zi].files[ri]
CurId == <<zi, ri>>

Attempt(stage, raised, res) ==
    [stage |-> stage, raised |-> raised, text |-> res.text, box |-> res.box]
NoResult == [text |-> <<>>, box |-> NoBox]

LocalsCleared ==
    /\ roi_type' = ""
    /\ bbox' = NoBox
    /\ modified_roi' = ""
    /\ ocr_text' = <<>>
    /\ ocr_box_rel' = NoBox
    /\ ocr_method' = "None"
    /\ validated_text' = <<>>
    /\ global_ocr_box' = NoBox
    /\ side_by_side' = <<>>
    /\ attempts' = <<>>
    /\ computed' = {}

LocalsUnchanged ==
    UNCHANGED <<roi_type, bbox, modified_roi, ocr_text, ocr_box_rel, ocr_method,
                validated_text, global_ocr_box, side_by_side, attempts, computed>>

NotCalled == [called |-> FALSE, text |-> <<>>, box |-> NoBox]

Init ==
    /\ batch \in Batches(MaxEntries)
    /\ zi = 0
    /\ ri = 0
    /\ pc = "main_loop"
    /\ results = <<>>
    /\ csv = <<>>
    /\ roi_type = ""
    /\ bbox = NoBox
    /\ modified_roi = ""
    /\ ocr_text = <<>>
    /\ ocr_box_rel = NoBox
    /\ ocr_method = "None"
    /\ validated_text = <<>>
    /\ global_ocr_box = NoBox
    /\ side_by_side = <<>>
    /\ attempts = <<>>
    /\ computed = {}
    /\ errored = {}
    /\ engine_rows = <<>>
    /\ ocr_out = NotCalled

\* main, lines 239-243, and process_zip_file up to the for loop, lines 107-130:
\* take the next entry of the annotated folder
OpenArchive ==
    /\ pc = "main_loop"
    /\ zi < Len(batch)
    /\ zi' = zi + 1
    /\ ri' = 0
    /\ pc' = IF batch[zi + 1].is_zip /\ batch[zi + 1].status = "ok"
             THEN "roi_loop" ELSE "main_loop"
    /\ UNCHANGED <<engine_rows, ocr_out, batch, results, csv, errored>>
    /\ LocalsUnchanged

\* line 132: the listing of the extracted files is exhausted; the function returns
ArchiveDone ==
    /\ pc = "roi_loop"
    /\ ri = Len(CurArchive.files)
    /\ pc' = "main_loop"
    /\ LocalsCleared
    /\ UNCHANGED <<engine_rows, ocr_out, batch, zi, ri, results, csv, errored>>

\* lines 132-142: take the next extracted file, read it, isolate its region
TakeRoi ==
    /\ pc = "roi_loop"
    /\ ri < Len(CurArchive.files)
    /\ ri' = ri + 1
    /\ LET f == CurArchive.files[ri + 1]
           r == process_single_roi(f, CurArchive.image)
           raise ==
               /\ errored' = errored \cup {<<zi, ri + 1>>}
               /\ pc' = AfterRoiException
               /\ LocalsCleared
           skip ==
               /\ errored' = errored
               /\ pc' = "roi_loop"
               /\ LocalsCleared
           start ==
               /\ errored' = errored
               /\ pc' = "otsu"
               /\ roi_type' = r.roi_type
               /\ bbox' = r.bbox
               /\ modified_roi' = ""
               /\ ocr_text' = <<>>
               /\ ocr_box_rel' = NoBox
               /\ ocr_method' = "None"
               /\ validated_text' = <<>>
               /\ global_ocr_box' = NoBox
               /\ side_by_side' = <<>>
               /\ attempts' = <<>>
               /\ computed' = {}
       IN  IF ~f.ext_roi THEN skip
           ELSE IF ~f.readable THEN raise
           ELSE IF SingleRoiRaises(f) THEN raise
           ELSE IF r.roi_img = "None" \/ r.bbox = NoBox THEN skip
           ELSE IF r.bbox[3] < r.bbox[1] \/ r.bbox[4] < r.bbox[2]
                \* image.crop of a box with right < left: ValueError in
                \* recent Pillow, an empty image in older ones
                THEN raise \/ start
           ELSE start
    /\ UNCHANGED <<engine_rows, ocr_out, batch, zi, results, csv>>

\* pytesseract.image_to_data raises inside run_tesseract_ocr (lines 146, 159,
\* 170): nothing catches it before the except of line 219
RaiseInStage(stage, eb) ==
    /\ errored' = errored \cup {CurId}
    /\ pc' = AfterRoiException
    /\ attempts' = Append(attempts, Attempt(stage, TRUE, NoResult))
    /\ computed' = computed \cup {stage}
    /\ UNCHANGED <<roi_type, bbox, modified_roi, ocr_text, ocr_box_rel, ocr_method,
                   validated_text, global_ocr_box, side_by_side>>

\* lines 145-152 (153: else)
StepOtsu ==
    /\ pc = "otsu"
    /\ IF Inverted(bbox)
       THEN \* remove_background on an empty image: cv2 raises
            /\ errored' = errored \cup {CurId}
            /\ pc' = AfterRoiException
            /\ LocalsUnchanged
       ELSE \E eb \in EngineBehaviours :
            IF eb.raises THEN RaiseInStage("otsu", eb)
            ELSE LET res == run_tesseract_ocr(eb.data)
                     vt  == validate_text(res.text, PipelineExceptions)
                     ok  == Gate(vt, res.box)
                 IN  /\ modified_roi' = "otsu"
                     /\ computed' = computed \cup {"otsu"}
                     /\ attempts' = Append(attempts, Attempt("otsu", FALSE, res))
                     /\ ocr_box_rel' = res.box
                     /\ validated_text' = vt
                     /\ ocr_text' = IF ok THEN vt ELSE res.text
                     /\ ocr_method' = IF ok THEN "otsu" ELSE "None"
                     /\ pc' = AfterStage("otsu", ok)
                     /\ errored' = errored
                     /\ UNCHANGED <<roi_type, bbox, global_ocr_box, side_by_side>>
    /\ UNCHANGED <<engine_rows, ocr_out, batch, zi, ri, results, csv>>

\* lines 154-166 (167: else)
StepEroded ==
    /\ pc = "eroded"
    /\ \E eb \in EngineBehaviours :
        IF eb.raises THEN RaiseInStage("eroded", eb)
        ELSE LET res == run_tesseract_ocr(eb.data)
                 vt  == validate_text(res.text, PipelineExceptions)
                 ok  == Gate(vt, res.box)
             IN  /\ computed' = computed \cup {"eroded"}
                 /\ attempts' = Append(attempts, Attempt("eroded", FALSE, res))
                 /\ validated_text' = vt
                 /\ ocr_text' = IF ok THEN vt ELSE ocr_text
                 /\ ocr_box_rel' = IF ok THEN AcceptedBox(ocr_box_rel, res.box) ELSE ocr_box_rel
                 /\ ocr_method' = IF ok THEN "eroded" ELSE ocr_method
                 /\ modified_roi' = IF ok THEN "eroded" ELSE modified_roi
                 /\ pc' = AfterStage("eroded", ok)
                 /\ errored' = errored
                 /\ UNCHANGED <<roi_type, bbox, global_ocr_box, side_by_side>>
    /\ UNCHANGED <<engine_rows, ocr_out, batch, zi, ri, results, csv>>

\* lines 168-179
StepFallback ==
    /\ pc = "fallback"
    /\ \E eb \in EngineBehaviours :
        IF eb.raises THEN RaiseInStage("fallback", eb)
        ELSE LET res == run_tesseract_ocr(eb.data)
                 vt  == validate_text(res.text, PipelineExceptions)
                 ok  == Gate(vt, res.box)
             IN  /\ computed' = computed \cup {"fallback"}
                 /\ attempts' = Append(attempts, Attempt("fallback", FALSE, res))
                 /\ validated_text' = vt
                 /\ ocr_text' = IF ok THEN vt ELSE ocr_text
                 /\ ocr_box_rel' = IF ok THEN AcceptedBox(ocr_box_rel, res.box) ELSE ocr_box_rel
                 /\ ocr_method' = IF ok THEN "fallback" ELSE "none"
                 /\ modified_roi' = IF ok THEN "fallback" ELSE modified_roi
                 /\ pc' = AfterStage("fallback", ok)
                 /\ errored' = errored
                 /\ UNCHANGED <<roi_type, bbox, global_ocr_box, side_by_side>>
    /\ UNCHANGED <<engine_rows, ocr_out, batch, zi, ri, results, csv>>

\* lines 181-221: page coordinates, debug image, save, append the record.
\* side_by_side.save may raise (the debug folder is outside the program's control)
Assemble ==
    /\ pc = "assemble"
    /\ global_ocr_box' = GlobalBox(bbox, ocr_box_rel)
    /\ side_by_side' = SideBySide(modified_roi, ocr_box_rel)
    /\ \E save_raises \in BOOLEAN :
          IF save_raises
          THEN /\ errored' = errored \cup {CurId}
               /\ pc' = AfterRoiException
               /\ results' = results
          ELSE /\ errored' = errored
               /\ pc' = "roi_loop"
               /\ results' = Append(results,
                      [page |-> zi, roi_file |-> ri, roi_type |-> roi_type,
                       ocr_text |-> ocr_text,
                       ocr_bbox |-> GlobalBox(bbox, ocr_box_rel),
                       debug_image |-> WordForFilename(ocr_text),
                       ocr_method |-> ocr_method])
    /\ UNCHANGED <<engine_rows, ocr_out, batch, zi, ri, csv, roi_type, bbox,
                   modified_roi, ocr_text,
                   ocr_box_rel, ocr_method, validated_text, attempts, computed>>

\* lines 245-252: after the last entry, the rows are written
WriteCsv ==
    /\ pc = "main_loop"
    /\ zi = Len(batch)
    /\ csv' = results
    /\ pc' = "done"
    /\ UNCHANGED <<engine_rows, ocr_out, batch, zi, ri, results, errored>>
    /\ LocalsUnchanged

Next ==
    \/ OpenArchive
    \/ ArchiveDone
    \/ TakeRoi
    \/ StepOtsu
    \/ StepEroded
    \/ StepFallback
    \/ Assemble
    \/ WriteCsv

Spec == Init /\ [][Next]_vars

-----------------------------------------------------------------------------
(* run_tesseract_ocr on its own, over every short list of engine rows *)

OcrTexts == { <<>>, <<" ">>, <<"c","a","t">>, <<" ","x","q"," ">> }
\* <<conf_ok, conf>>
OcrConfs == { <<TRUE, -1>>, <<TRUE, 0>>, <<TRUE, 90>>, <<FALSE, 0>> }
\* <<left, top, width, height>>
OcrGeoms == { <<10, 10, 30, 15>>, <<2, 3, 20, 10>> }

OcrRows ==
    { Row(t, c[1], c[2], g[1], g[2], g[3], g[4]) :
        t \in OcrTexts, c \in OcrConfs, g \in OcrGeoms }

RECURSIVE RowSeqs(_)
RowSeqs(n) ==
    IF n = 0 THEN { <<>> }
    ELSE RowSeqs(n - 1) \cup
         { <<r>> \o s : r \in OcrRows, s \in { t \in RowSeqs(n - 1) : Len(t) = n - 1 } }

InitOcr ==
    /\ engine_rows \in RowSeqs(MaxRows)
    /\ ocr_out = NotCalled
    /\ batch = <<>>
    /\ zi = 0
    /\ ri = 0
    /\ pc = "main_loop"
    /\ results = <<>>
    /\ csv = <<>>
    /\ roi_type = ""
    /\ bbox = NoBox
    /\ modified_roi = ""
    /\ ocr_text = <<>>
    /\ ocr_box_rel = NoBox
    /\ ocr_method = "None"
    /\ validated_text = <<>>
    /\ global_ocr_box = NoBox
    /\ side_by_side = <<>>
    /\ attempts = <<>>
    /\ computed = {}
    /\ errored = {}

\* utils/tesseract.py lines 4-43: one call on engine_rows
CallOcr ==
    /\ ~ocr_out.called
    /\ LET res == run_tesseract_ocr(engine_rows)
       IN  ocr_out' = [called |-> TRUE, text |-> res.text, box |-> res.box]
    /\ UNCHANGED <<engine_rows, batch, zi, ri, pc, results, csv, errored>>
    /\ LocalsUnchanged

NextOcr == CallOcr

SpecOcr == InitOcr /\ [][NextOcr]_vars

-----------------------------------------------------------------------------
(* Vocabulary of the properties.  These restate the code's conditions in    *)
(* full, so that they do not move when a definition above is altered.       *)

StageNames == {"otsu", "eroded", "fallback"}

\* the tokens of a recognized string that the validator lets through
ValidTokens(text) == KeepTokens(FindAll(text), PipelineExceptions)

\* the attempt passed: it returned, its validated text is not blank and it has a box
Passed(a) ==
    /\ ~a.raised
    /\ Strip(Join(ValidTokens(a.text))) # <<>>
    /\ a.box # NoBox

HasRecord(a, r) == \E i \in 1..Len(results) : results[i].page = a /\ results[i].roi_file = r
RecordCount(a, r) ==
    Cardinality({ i \in 1..Len(results) : results[i].page = a /\ results[i].roi_file = r })

\* the record of the ROI in hand has just been appended
RecordInHand ==
    /\ pc = "roi_loop"
    /\ results # <<>>
    /\ results[Len(results)].page = zi
    /\ results[Len(results)].roi_file = ri
LastRecord == results[Len(results)]

\* an ROI file is in hand (taken from the listing, its archive not yet left)
RoiInHand == pc \in {"roi_loop", "otsu", "eroded", "fallback", "assemble"} /\ ri >= 1

CatText    == <<"c", "a", "t">>
Cat123Text == <<"c", "a", "t", " ", "1", "2", "3">>

-----------------------------------------------------------------------------
(* C1 *)

\* C1: for the ROI in hand the stages are tried in their fixed order, and once
\* an attempt has passed validation with a box present it is the last one: it
\* names the method, and no later stage's image was computed, no later OCR
\* call or validation was made.
C1_FirstAcceptedWins ==
    /\ Len(attempts) <= 3
    /\ \A i \in 1..Len(attempts) :
          /\ attempts[i].stage = <<"otsu", "eroded", "fallback">>[i]
          /\ Passed(attempts[i]) =>
                /\ i = Len(attempts)
                /\ ocr_method = attempts[i].stage
                /\ computed = { attempts[j].stage : j \in 1..i }

\* an ROI accepted at the first stage has reached the end of the cascade with
\* one attempt made
C1_Witness ==
    /\ pc = "assemble"
    /\ ocr_method = "otsu"
    /\ Len(attempts) = 1
    /\ computed = {"otsu"}

-----------------------------------------------------------------------------
(* C2 *)

\* C2: every record whose method is "none" has the empty text and no
\* page-coordinate box.
C2_ExhaustedIsEmpty ==
    \A i \in 1..Len(results) :
        results[i].ocr_method = "none" =>
            results[i].ocr_text = <<>> /\ results[i].ocr_bbox = NoBox

-----------------------------------------------------------------------------
(* C3 *)

\* C3 as stated: an accepted attempt's recognized string has only tokens that
\* pass the validator.
C3_WholeStringValid ==
    \A i \in 1..Len(attempts) :
        ocr_method = attempts[i].stage =>
            \A k \in 1..Len(FindAll(attempts[i].text)) :
                TokenKept(FindAll(attempts[i].text)[k], PipelineExceptions)

\* C3 amended: an accepted attempt's recognized string has at least one token
\* that passes the validator, and the accepted text is exactly the passing
\* tokens joined by single spaces, the failing tokens dropped; "cat 123" with
\* a box is accepted as "cat".
C3_ValidTokensKept ==
    \A i \in 1..Len(attempts) :
        /\ ocr_method = attempts[i].stage =>
              /\ ValidTokens(attempts[i].text) # <<>>
              /\ ocr_text = Join(ValidTokens(attempts[i].text))
              /\ \A k \in 1..Len(FindAll(ocr_text)) :
                    TokenKept(FindAll(ocr_text)[k], PipelineExceptions)
        /\ (~attempts[i].raised /\ attempts[i].text = Cat123Text /\ attempts[i].box # NoBox) =>
              /\ ocr_method = attempts[i].stage
              /\ ocr_text = CatText

\* "cat 123" has been recognized and accepted as "cat"
C3_Witness ==
    /\ attempts # <<>>
    /\ attempts[Len(attempts)].text = Cat123Text
    /\ ocr_method = attempts[Len(attempts)].stage
    /\ ocr_text = CatText

-----------------------------------------------------------------------------
(* C4 *)

\* C4: the record just emitted has method "none" exactly if all three stages
\* were attempted and none passed; otherwise its method is the stage of the
\* earliest attempt that passed.
C4_MethodNamesFirstPass ==
    RecordInHand =>
        LET m == LastRecord.ocr_method
            allFailed == Len(attempts) = 3 /\ \A i \in 1..3 : ~Passed(attempts[i])
        IN  /\ (m = "none") <=> allFailed
            /\ m # "none" =>
                  \E i \in 1..Len(attempts) :
                      /\ Passed(attempts[i])
                      /\ m = attempts[i].stage
                      /\ \A j \in 1..(i - 1) : ~Passed(attempts[j])

\* a record emitted for an ROI whose first stage failed and second passed
C4_Witness ==
    /\ RecordInHand
    /\ LastRecord.ocr_method = "eroded"
    /\ Len(attempts) = 2
    /\ ~Passed(attempts[1])

-----------------------------------------------------------------------------
(* C5 *)

\* C5: the page box of a record with a winning stage is that stage's own
\* local box moved by the region bbox's (left, top).
C5_PageBoxOfWinner ==
    (RecordInHand /\ LastRecord.ocr_method \in StageNames) =>
        \E i \in 1..Len(attempts) :
            /\ attempts[i].stage = LastRecord.ocr_method
            /\ attempts[i].box # NoBox
            /\ LastRecord.ocr_bbox =
                  << bbox[1] + attempts[i].box[1], bbox[2] + attempts[i].box[2],
                     bbox[1] + attempts[i].box[3], bbox[2] + attempts[i].box[4] >>

\* a record whose winner came after a rejected stage that had another box,
\* for a region that does not start at the page origin
C5_Witness ==
    /\ RecordInHand
    /\ LastRecord.ocr_method = "eroded"
    /\ attempts[1].box # NoBox
    /\ attempts[1].box # attempts[2].box
    /\ bbox[1] > 0 /\ bbox[2] > 0

-----------------------------------------------------------------------------
(* C6 *)

\* C6: when process_single_roi has returned for a rectangle, the bbox lies
\* within the page and has non-negative width and height.
C6_RectBBoxWithinPage ==
    (pc = "otsu" /\ CurFile.roitype = "RECT") =>
        /\ 0 <= bbox[1] /\ 0 <= bbox[2]
        /\ bbox[3] <= CurArchive.image.width
        /\ bbox[4] <= CurArchive.image.height
        /\ bbox[3] - bbox[1] >= 0
        /\ bbox[4] - bbox[2] >= 0

-----------------------------------------------------------------------------
(* C7 *)

\* the ROI file r of entry a is one the pipeline emits a record for, and its
\* processing did not raise
Processable(a, r) ==
    /\ batch[a].is_zip /\ batch[a].status = "ok"
    /\ batch[a].files[r].ext_roi
    /\ batch[a].files[r].readable
    /\ batch[a].files[r].roitype \in {"RECT", "FREEHAND"}
    /\ batch[a].files[r].roitype = "FREEHAND" =>
          batch[a].files[r].has_coords /\ Len(batch[a].files[r].coords) >= 2
    /\ <<a, r>> \notin errored

\* C7: when the batch has ended, every ROI that was processable without error
\* has exactly one record, wherever a failing ROI or archive was listed; and
\* the result sequence only ever grows by one record at its end.
C7_FailureIsolated ==
    /\ [](pc = "done" =>
            \A a \in 1..Len(batch) : \A r \in 1..Len(batch[a].files) :
                Processable(a, r) => RecordCount(a, r) = 1)
    /\ [][ /\ Len(results') \in {Len(results), Len(results) + 1}
           /\ SubSeq(results', 1, Len(results)) = results ]_vars

\* the batch has ended with a record for an ROI listed after one that raised
C7_Witness ==
    /\ pc = "done"
    /\ \E e \in errored : \E i \in 1..Len(results) :
          results[i].page = e[1] /\ results[i].roi_file > e[2]

-----------------------------------------------------------------------------
(* C8 *)

\* C8 as stated: an outcome "none" is declared only after croptop10 and
\* croptop20 were attempted.
C8_FiveStages ==
    ocr_method = "none" =>
        /\ \E i \in 1..Len(attempts) : attempts[i].stage = "croptop10"
        /\ \E i \in 1..Len(attempts) : attempts[i].stage = "croptop20"

\* C8 amended: the cascade has the three stages otsu, eroded, fallback, tried
\* in that order; after a failed otsu comes eroded, after a failed eroded
\* comes fallback, "none" is declared only after all three were attempted,
\* and a record's method is one of the three names or "none".
C8_ThreeStages ==
    /\ Len(attempts) <= 3
    /\ \A i \in 1..Len(attempts) :
          attempts[i].stage = <<"otsu", "eroded", "fallback">>[i]
    /\ pc = "eroded" => Len(attempts) = 1 /\ ~Passed(attempts[1])
    /\ pc = "fallback" => Len(attempts) = 2 /\ ~Passed(attempts[2])
    /\ (pc = "assemble" /\ ~Passed(attempts[Len(attempts)])) => Len(attempts) = 3
    /\ ocr_method = "none" => Len(attempts) = 3
    /\ \A i \in 1..Len(results) :
          results[i].ocr_method \in {"otsu", "eroded", "fallback", "none"}

\* an ROI won by the last stage after the first two failed
C8_Witness ==
    /\ pc = "assemble"
    /\ ocr_method = "fallback"
    /\ Len(attempts) = 3

-----------------------------------------------------------------------------
(* C9 *)

\* a readable ROI file that is a freehand with fewer than 2 vertices or no
\* coordinates, or of a kind other than rectangle and freehand
NoGeometry(f) ==
    /\ f.ext_roi /\ f.readable
    /\ \/ f.roitype = "FREEHAND" /\ (~f.has_coords \/ Len(f.coords) < 2)
       \/ f.roitype \notin {"RECT", "FREEHAND"}

\* C9: such an ROI did not raise, has no record, had no OCR attempt and no
\* candidate image, and leaves the worker at the loop over the files.
C9_NoGeometrySkipped ==
    /\ \A a \in 1..zi : \A r \in 1..Len(batch[a].files) :
          ((a < zi \/ r <= ri) /\ batch[a].is_zip /\ batch[a].status = "ok"
             /\ NoGeometry(batch[a].files[r])) =>
                <<a, r>> \notin errored /\ ~HasRecord(a, r)
    /\ (RoiInHand /\ NoGeometry(CurFile)) =>
          pc = "roi_loop" /\ attempts = <<>> /\ computed = {}

\* a record was emitted for an ROI listed after a skipped one
C9_Witness ==
    \E i \in 1..Len(results) : \E r \in 1..Len(batch[results[i].page].files) :
        r < results[i].roi_file /\ NoGeometry(batch[results[i].page].files[r])

-----------------------------------------------------------------------------
(* C10 *)

\* C10: an engine call that raised does not end the ROI: its processing is
\* not abandoned as an error.
C10_EngineFailureIsEmptyResult ==
    (\E i \in 1..Len(attempts) : attempts[i].raised) => CurId \notin errored

-----------------------------------------------------------------------------
(* C11 *)

\* the rows that count: text not empty once trimmed, confidence > 0
Counts(row) == Strip(row.text) # <<>> /\ row.conf_ok /\ row.conf > 0
CountingIdx == { i \in 1..Len(engine_rows) : Counts(engine_rows[i]) }

\* the trimmed texts of the counting rows from index i on, joined by one space
RECURSIVE JoinedFrom(_)
JoinedFrom(i) ==
    IF i > Len(engine_rows) THEN <<>>
    ELSE IF ~Counts(engine_rows[i]) THEN JoinedFrom(i + 1)
    ELSE IF \E j \in CountingIdx : j > i
         THEN Strip(engine_rows[i].text) \o <<" ">> \o JoinedFrom(i + 1)
         ELSE Strip(engine_rows[i].text)

\* C11: run_tesseract_ocr returns ("", none) exactly if no row has non-empty
\* trimmed text and confidence > 0; otherwise it returns the trimmed texts of
\* those rows joined by single spaces in order, and the union of their boxes
\* grown by 5 px, left and top clamped at 0, right and bottom not clamped.
C11_OcrReduction ==
    ocr_out.called =>
        /\ (ocr_out.text = <<>> /\ ocr_out.box = NoBox) <=> CountingIdx = {}
        /\ CountingIdx # {} =>
              /\ ocr_out.text = JoinedFrom(1)
              /\ ocr_out.box # NoBox
              /\ \A i \in CountingIdx :
                    /\ ocr_out.box[1] <= Max2(0, engine_rows[i].left - 5)
                    /\ ocr_out.box[2] <= Max2(0, engine_rows[i].top - 5)
                    /\ ocr_out.box[3] >= engine_rows[i].left + engine_rows[i].width + 5
                    /\ ocr_out.box[4] >= engine_rows[i].top + engine_rows[i].height + 5
              /\ \E i \in CountingIdx : ocr_out.box[1] = Max2(0, engine_rows[i].left - 5)
              /\ \E i \in CountingIdx : ocr_out.box[2] = Max2(0, engine_rows[i].top - 5)
              /\ \E i \in CountingIdx : ocr_out.box[3] = engine_rows[i].left + engine_rows[i].width + 5
              /\ \E i \in CountingIdx : ocr_out.box[4] = engine_rows[i].top + engine_rows[i].height + 5

\* a call on two different counting rows, one of them near the origin so that
\* left and top are clamped
C11_Witness ==
    /\ ocr_out.called
    /\ Len(engine_rows) = 2
    /\ CountingIdx = {1, 2}
    /\ engine_rows[1].left # engine_rows[2].left
    /\ engine_rows[1].text # engine_rows[2].text
    /\ ocr_out.box[1] = 0 /\ ocr_out.box[2] = 0

-----------------------------------------------------------------------------
(* C12 *)

\* C12 as stated: the debug image built for an ROI holds the original crop
\* followed by one sub-image per attempted stage, in cascade order.
C12_OneImagePerAttempt ==
    side_by_side # <<>> =>
        /\ Len(side_by_side) = 1 + Len(attempts)
        /\ side_by_side[1].img = "original"
        /\ \A i \in 1..Len(attempts) : side_by_side[i + 1].img = attempts[i].stage

\* C12 amended: the debug image holds the original crop, unannotated, followed
\* by exactly one processed image, whatever the number of stages attempted:
\* the winning stage's candidate with its own box drawn, or, when every stage
\* failed, the otsu candidate with the otsu box drawn if there was one.
C12_OriginalAndOneProcessed ==
    side_by_side # <<>> =>
        LET shown == IF ocr_method \in {"otsu", "eroded", "fallback"}
                     THEN ocr_method ELSE "otsu"
        IN  /\ Len(side_by_side) = 2
            /\ side_by_side[1] = [img |-> "original", drawn |-> NoBox]
            /\ side_by_side[2].img = shown
            /\ \E i \in 1..Len(attempts) :
                  /\ attempts[i].stage = shown
                  /\ side_by_side[2].drawn = attempts[i].box

\* the debug image of an ROI for which all three stages were attempted and failed
C12_Witness ==
    /\ side_by_side # <<>>
    /\ ocr_method = "none"
    /\ Len(attempts) = 3

=============================================================================
